---------------------------- MODULE Spec2Model ----------------------------
(***************************************************************************)
(* Model of the two Streamlit dashboards of the Sintraopo affiliate        *)
(* registry: src/App.py (variant 1: cached load, simulated form, "Reportes *)
(* por Regional") and src/app.py (variant 2: session-state collection,     *)
(* appending form, "Importar/Exportar").                                   *)
(*                                                                         *)
(* Text is a sequence of one-character strings.  A table cell is a record  *)
(* [na, v]: na is TRUE for pandas' NaN.  Money is counted in hundredths    *)
(* (1000.00 is 100000), so that float sums are exact integer sums.         *)
(***************************************************************************)
EXTENDS Integers, Sequences, FiniteSets, TLC

\* ------------------------------------------------------------------ bounds
MaxRows == 2          \* rows of the CSV file on disk
MaxAppends == 1       \* form submissions that append in one session

\* -------------------------------------------------------------------- text
Digits == <<"0", "1", "2", "3", "4", "5", "6", "7", "8", "9">>

IsDigit(c) == \E i \in 1..10 : Digits[i] = c

DigitVal(c) == (CHOOSE i \in 1..10 : Digits[i] = c) - 1

LowerLetters == <<"a", "c", "d", "e", "i", "n", "o", "r", "t", "v">>

UpperLetters == <<"A", "C", "D", "E", "I", "N", "O", "R", "T", "V">>

\* str.upper() on one character
UpChar(c) ==
    IF \E i \in 1..Len(LowerLetters) : LowerLetters[i] = c
    THEN UpperLetters[CHOOSE i \in 1..Len(LowerLetters) : LowerLetters[i] = c]
    ELSE c

\* str.upper()
Upper(s) == [i \in 1..Len(s) |-> UpChar(s[i])]

\* str.replace(ch, '')
RECURSIVE Remove(_, _)
Remove(s, ch) ==
    IF s = <<>> THEN <<>>
    ELSE IF Head(s) = ch THEN Remove(Tail(s), ch)
    ELSE <<Head(s)>> \o Remove(Tail(s), ch)

\* value of a text of digits (0 for the empty text)
RECURSIVE DigitsVal(_)
DigitsVal(s) ==
    IF s = <<>> THEN 0
    ELSE DigitsVal(SubSeq(s, 1, Len(s) - 1)) * 10 + DigitVal(s[Len(s)])

\* decimal text of a natural number
RECURSIVE NatText(_)
NatText(n) ==
    IF n < 10 THEN <<Digits[n + 1]>>
    ELSE NatText(n \div 10) \o <<Digits[(n % 10) + 1]>>

\* index of the decimal point, 0 when there is none
DotAt(s) ==
    IF \E i \in 1..Len(s) : s[i] = "."
    THEN CHOOSE i \in 1..Len(s) : s[i] = "." /\ \A j \in 1..(i - 1) : s[j] # "."
    ELSE 0

\* whether float(s) succeeds, for texts over digits, '.', '$', ',' and letters
IsFloat(s) ==
    /\ \E i \in 1..Len(s) : IsDigit(s[i])
    /\ \A i \in 1..Len(s) : IsDigit(s[i]) \/ (s[i] = "." /\ i = DotAt(s))

\* float(s) in hundredths; s has at most two decimals
ParseFloat(s) ==
    LET d == DotAt(s)
        ip == IF d = 0 THEN s ELSE SubSeq(s, 1, d - 1)
        fp == IF d = 0 THEN <<>> ELSE SubSeq(s, d + 1, Len(s))
        f2 == SubSeq(fp \o <<"0", "0">>, 1, 2)
    IN DigitsVal(ip) * 100 + DigitsVal(f2)

\* thousands grouping of the "," format specifier
RECURSIVE Grouped(_)
Grouped(n) ==
    IF n < 1000 THEN NatText(n)
    ELSE LET r == n % 1000
             pad == IF r < 10 THEN <<"0", "0">> ELSE IF r < 100 THEN <<"0">> ELSE <<>>
         IN Grouped(n \div 1000) \o <<",">> \o pad \o NatText(r)

\* f"${cuota:,.2f}"
FormatCurrency(cents) ==
    LET f == cents % 100
    IN <<"$">> \o Grouped(cents \div 100) \o <<".">>
       \o (IF f < 10 THEN <<"0">> ELSE <<>>) \o NatText(f)

\* repr of a float, as to_csv writes it: 1000.0, 0.5, 0.25
FloatText(cents) ==
    LET f == cents % 100
    IN NatText(cents \div 100) \o <<".">>
       \o (IF f % 10 = 0 THEN NatText(f \div 10)
           ELSE (IF f < 10 THEN <<"0">> ELSE <<>>) \o NatText(f))

\* ------------------------------------------------------------------- cells
Txt(s) == [na |-> FALSE, v |-> s]

Num(n) == [na |-> FALSE, v |-> n]

NaText == [na |-> TRUE, v |-> <<>>]

NaN == [na |-> TRUE, v |-> 0]

CEDULA == "CEDULA"

NOMBRES == "APELLIDOS / NOMBRES"

REGIONAL == "REGIONAL"

CIUDAD == "CIUDAD AFILIACION"

ESTADO_AFILIADO == "ESTADO_AFILIADO"

SUMA_CUOTAS == "SUMA_CUOTAS"

SUMA_CUOTAS_NUM == "SUMA_CUOTAS_NUM"

\* the missing value of a column added by pd.concat
NaOf(c) == IF c = SUMA_CUOTAS_NUM THEN NaN ELSE NaText

ACTIVO == <<"A", "C", "T", "I", "V", "O">>

RETIRADO == <<"R", "E", "T", "I", "R", "A", "D", "O">>

DESCONOCIDO == <<"D", "E", "S", "C", "O", "N", "O", "C", "I", "D", "O">>

SIN_ASIGNAR == <<"S", "I", "N", " ", "A", "S", "I", "G", "N", "A", "R">>

SUR == <<"S", "U", "R">>

ORIENTE == <<"O", "R", "I", "E", "N", "T", "E">>


CENTRO_A == <<"C", "E", "N", "T", "R", "O", " ", "A">>

EJE_CAFETERO == <<"E", "J", "E", " ", "C", "A", "F", "E", "T", "E", "R", "O">>

NOROCCIDENTE == <<"N", "O", "R", "O", "C", "C", "I", "D", "E", "N", "T", "E">>

CALI == <<"C", "A", "L", "I">>

\* ------------------------------------------------------------ CSV sources
\* the columns DB_AFILIADOS.csv is expected to have
RawCols == {CEDULA, NOMBRES, REGIONAL, CIUDAD, ESTADO_AFILIADO, SUMA_CUOTAS}

RawRow(ced, nom, reg, ciu, est, cuo) ==
    [c \in RawCols |->
        CASE c = CEDULA -> ced
          [] c = NOMBRES -> nom
          [] c = REGIONAL -> reg
          [] c = CIUDAD -> ciu
          [] c = ESTADO_AFILIADO -> est
          [] OTHER -> cuo]

\* The rows a CSV is made of.  Between them: a currency text, an absent dues
\* value, a text that is no number and a plain number; a lower-case, an
\* absent, an upper-case and a mixed-case status; an absent regional, an
\* absent name, an absent cedula.
RowAna ==
    RawRow(Txt(<<"1", "2">>), Txt(<<"A", "n", "a">>), NaText, Txt(CALI),
           Txt(<<"a", "c", "t", "i", "v", "o">>),
           Txt(<<"$", "1", ",", "0", "0", "0", ".", "0", "0">>))

RowDan == RawRow(NaText, Txt(<<"D", "A", "N">>), Txt(SUR), NaText, NaText, NaText)

RowSeven ==
    RawRow(Txt(<<"7">>), NaText, Txt(ORIENTE), Txt(CALI), Txt(RETIRADO), Txt(<<"x">>))

RowLower ==
    RawRow(Txt(<<"2", "1">>), Txt(<<"a", "n", "a">>), Txt(SUR), NaText,
           Txt(<<"A", "c", "t", "i", "v", "o">>), Txt(<<"2", "5", "0">>))

SampleRows == {RowAna, RowDan, RowSeven, RowLower}

RECURSIVE SeqsUpTo(_, _)
SeqsUpTo(S, n) ==
    IF n = 0 THEN {<<>>}
    ELSE LET shorter == SeqsUpTo(S, n - 1)
         IN shorter \cup {Append(q, x) : q \in shorter, x \in S}

\* the header variants: complete, or lacking one of the columns the code reads
ColSets ==
    {RawCols, RawCols \ {SUMA_CUOTAS}, RawCols \ {ESTADO_AFILIADO},
     RawCols \ {REGIONAL}}

Project(row, cols) == [c \in cols |-> row[c]]

\* a source that pd.read_csv cannot parse (or that does not exist)
Unparsable == [ok |-> FALSE, cols |-> {}, rows |-> <<>>]

CsvFiles(n) ==
    {Unparsable} \cup
    { [ok |-> TRUE, cols |-> cs, rows |-> [i \in 1..Len(q) |-> Project(q[i], cs)]] :
        cs \in ColSets, q \in SeqsUpTo(SampleRows, n) }

\* the contents of DB_AFILIADOS.csv tried
DiskFiles == CsvFiles(MaxRows)

\* the replacement files tried: every header variant around one row, and a
\* file that is no CSV
UploadFiles ==
    {Unparsable} \cup
    { [ok |-> TRUE, cols |-> cs, rows |-> <<Project(r, cs)>>] :
        cs \in ColSets, r \in {RowAna, RowDan} }

\* ------------------------------------------------------------------ tables
\* pd.DataFrame()
NoColumns == [cols |-> {}, rows |-> <<>>]

\* pd.DataFrame(columns=[...]) of the session-state fallback
EmptyStructured ==
    [cols |-> {CEDULA, NOMBRES, REGIONAL, CIUDAD, ESTADO_AFILIADO, SUMA_CUOTAS_NUM},
     rows |-> <<>>]

\* df[c] = cells: row i gets cells[i] (adds the column when it is new)
WithColumn(t, c, cells) ==
    [cols |-> t.cols \cup {c},
     rows |-> [i \in 1..Len(t.rows) |->
                 [k \in t.cols \cup {c} |-> IF k = c THEN cells[i] ELSE t.rows[i][k]]]]

\* Series.fillna(s)
FillNa(cell, s) == IF cell.na THEN Txt(s) ELSE cell

\* ------------------------------------------------------ loader of variant 2
StripCurrency(s) == Remove(Remove(s, "$"), ",")

clean_currency(value) ==
    IF ~value.na
    THEN LET s == StripCurrency(value.v)
         IN IF IsFloat(s) THEN Num(ParseFloat(s)) ELSE Num(0)
    ELSE NaN

\* whether load_data(file) of app.py raises: read_csv fails, or the
\* ESTADO_AFILIADO or REGIONAL column is read (KeyError)
load_data_raises(file) ==
    \/ ~file.ok
    \/ ESTADO_AFILIADO \notin file.cols
    \/ REGIONAL \notin file.cols

\* load_data(file) of app.py when it does not raise
load_data(file) ==
    LET df == [cols |-> file.cols, rows |-> file.rows]
        n == Len(df.rows)
        df1 == IF SUMA_CUOTAS \in df.cols
               THEN WithColumn(df, SUMA_CUOTAS_NUM,
                               [i \in 1..n |-> clean_currency(df.rows[i][SUMA_CUOTAS])])
               ELSE WithColumn(df, SUMA_CUOTAS_NUM, [i \in 1..n |-> Num(0)])
        df2 == WithColumn(df1, ESTADO_AFILIADO,
                          [i \in 1..n |-> FillNa(df1.rows[i][ESTADO_AFILIADO], DESCONOCIDO)])
    IN WithColumn(df2, REGIONAL,
                  [i \in 1..n |-> FillNa(df2.rows[i][REGIONAL], SIN_ASIGNAR)])

\* the session-state initialisation: the load, or the structured empty frame
InitialCollection(file) ==
    IF load_data_raises(file) THEN EmptyStructured ELSE load_data(file)

\* ------------------------------------------------------ loader of variant 1
\* .replace('[\$,]', '', regex=True).astype(float) raises on a text that is
\* no number
AsTypeFloatRaises(file) ==
    /\ SUMA_CUOTAS \in file.cols
    /\ \E i \in 1..Len(file.rows) :
          /\ ~file.rows[i][SUMA_CUOTAS].na
          /\ ~IsFloat(StripCurrency(file.rows[i][SUMA_CUOTAS].v))

\* whether the try block of load_data of App.py raises
LoadDataV1Raises(file) == ~file.ok \/ AsTypeFloatRaises(file)

\* load_data(file_path) of App.py
LoadDataV1(file) ==
    IF LoadDataV1Raises(file) THEN NoColumns
    ELSE LET df == [cols |-> file.cols, rows |-> file.rows]
             n == Len(df.rows)
             AsFloat(raw) == IF raw.na THEN NaN
                             ELSE Num(ParseFloat(StripCurrency(raw.v)))
             df1 == IF SUMA_CUOTAS \in df.cols
                    THEN WithColumn(df, SUMA_CUOTAS_NUM,
                                    [i \in 1..n |-> AsFloat(df.rows[i][SUMA_CUOTAS])])
                    ELSE df
         IN IF ESTADO_AFILIADO \in df1.cols
            THEN WithColumn(df1, ESTADO_AFILIADO,
                            [i \in 1..n |->
                               Txt(Upper(FillNa(df1.rows[i][ESTADO_AFILIADO], DESCONOCIDO).v))])
            ELSE df1

\* ------------------------------------------------------------ aggregation
\* DataFrame.empty: no rows or no columns
IsEmpty(t) == Len(t.rows) = 0 \/ t.cols = {}

\* the rows whose REGIONAL is g; groupby and value_counts leave NaN keys out
InGroup(t, g) ==
    {i \in 1..Len(t.rows) : ~t.rows[i][REGIONAL].na /\ t.rows[i][REGIONAL].v = g}

\* the group keys of groupby('REGIONAL') and of value_counts()
RegionalKeys(t) ==
    {t.rows[i][REGIONAL].v : i \in {j \in 1..Len(t.rows) : ~t.rows[j][REGIONAL].na}}

\* Series.sum() over the rows I of SUMA_CUOTAS_NUM: NaN is skipped
RECURSIVE SumOver(_, _)
SumOver(t, I) ==
    IF I = {} THEN 0
    ELSE LET i == CHOOSE j \in I : TRUE
             c == t.rows[i][SUMA_CUOTAS_NUM]
         IN (IF c.na THEN 0 ELSE c.v) + SumOver(t, I \ {i})

\* df['SUMA_CUOTAS_NUM'].sum()
total_recaudo(t) == SumOver(t, 1..Len(t.rows))

\* len(df[df['ESTADO_AFILIADO'] == s]) of App.py
CountEstado(t, s) ==
    Cardinality({i \in 1..Len(t.rows) : t.rows[i][ESTADO_AFILIADO] = Txt(s)})

\* len(df[df['ESTADO_AFILIADO'].str.upper() == s]) of app.py
CountEstadoUpper(t, s) ==
    Cardinality({i \in 1..Len(t.rows) :
                    /\ ~t.rows[i][ESTADO_AFILIADO].na
                    /\ Upper(t.rows[i][ESTADO_AFILIADO].v) = s})

\* df.groupby('REGIONAL').agg(Afiliados, Activos, Recaudo_Total) of App.py
resumen_regional(t) ==
    { [REGIONAL |-> g,
       Afiliados |-> Cardinality({i \in InGroup(t, g) : ~t.rows[i][CEDULA].na}),
       Activos |-> Cardinality({i \in InGroup(t, g) :
                                   t.rows[i][ESTADO_AFILIADO] = Txt(ACTIVO)}),
       Recaudo_Total |-> SumOver(t, InGroup(t, g))] : g \in RegionalKeys(t) }

\* df['REGIONAL'].value_counts().reset_index()
regional_counts(t) ==
    { [Regional |-> g, Cantidad |-> Cardinality(InGroup(t, g))] : g \in RegionalKeys(t) }

\* df.groupby('REGIONAL')['SUMA_CUOTAS_NUM'].sum().reset_index() of app.py
recaudo_reg(t) ==
    { [REGIONAL |-> g, SUMA_CUOTAS_NUM |-> SumOver(t, InGroup(t, g))] :
        g \in RegionalKeys(t) }

\* ------------------------------------------------------------------ search
\* a pattern the regex compiler rejects
BadPattern(pat) == \E i \in 1..Len(pat) : pat[i] = "("

\* one pattern character against one text character: '.' is the wildcard
CharMatches(p, c, ignoreCase) ==
    \/ p = "."
    \/ p = c
    \/ ignoreCase /\ UpChar(p) = UpChar(c)

\* re.search(pat, text), for patterns of literals and '.'
RegexSearch(pat, text, ignoreCase) ==
    \E k \in 0..(Len(text) - Len(pat)) :
        \A i \in 1..Len(pat) : CharMatches(pat[i], text[k + i], ignoreCase)

\* astype(str) of a cell
AsStr(cell) == IF cell.na THEN <<"n", "a", "n">> ELSE cell.v

\* the .str accessor of a column raises when its values are not text: a
\* column of a loaded file that holds only NaN is a float column
StrAccessorRaises(t, c) ==
    Len(t.rows) > 0 /\ \A i \in 1..Len(t.rows) : t.rows[i][c].na

\* whether evaluating the search mask raises
SearchRaises(t, pat) == StrAccessorRaises(t, NOMBRES) \/ BadPattern(pat)

\* the mask: name contains (case=False, na=False) | cedula as text contains
SearchMask(t, pat, i) ==
    \/ ~t.rows[i][NOMBRES].na /\ RegexSearch(pat, t.rows[i][NOMBRES].v, TRUE)
    \/ RegexSearch(pat, AsStr(t.rows[i][CEDULA]), FALSE)

\* df[mask]
RECURSIVE FilterRows(_, _, _)
FilterRows(t, pat, n) ==
    IF n = 0 THEN <<>>
    ELSE IF SearchMask(t, pat, n)
         THEN Append(FilterRows(t, pat, n - 1), t.rows[n])
         ELSE FilterRows(t, pat, n - 1)

\* ---------------------------------------------------------- append, export
\* the new_row dict of the nuevo_afiliado form
new_row(form) ==
    [c \in {CEDULA, NOMBRES, REGIONAL, ESTADO_AFILIADO, SUMA_CUOTAS_NUM, SUMA_CUOTAS} |->
        CASE c = CEDULA -> Txt(form.cedula)
          [] c = NOMBRES -> Txt(form.nombre)
          [] c = REGIONAL -> Txt(form.reg)
          [] c = ESTADO_AFILIADO -> Txt(form.estado)
          [] c = SUMA_CUOTAS_NUM -> Num(form.cuota)
          [] OTHER -> Txt(FormatCurrency(form.cuota))]

\* a row widened to the columns cs, NaN where it has no value
Widen(row, cs) == [c \in cs |-> IF c \in DOMAIN row THEN row[c] ELSE NaOf(c)]

\* a concat with its operands swapped: the new row comes first
ConcatFirst(t, row) ==
    LET cs == t.cols \cup DOMAIN row
    IN [cols |-> cs,
        rows |-> [i \in 1..(Len(t.rows) + 1) |->
                    IF i = 1 THEN Widen(row, cs) ELSE Widen(t.rows[i - 1], cs)]]

\* pd.concat([t, pd.DataFrame([row])], ignore_index=True)
Concat(t, row) ==
    LET cs == t.cols \cup DOMAIN row
    IN [cols |-> cs,
        rows |-> [i \in 1..(Len(t.rows) + 1) |->
                    IF i <= Len(t.rows) THEN Widen(t.rows[i], cs) ELSE Widen(row, cs)]]

\* one cell as to_csv writes it
CsvCell(c, cell) ==
    IF cell.na THEN <<>>
    ELSE IF c = SUMA_CUOTAS_NUM THEN FloatText(cell.v) ELSE cell.v

\* an export that drops the rows holding a NaN (a dropna() before to_csv)
ToCsvDropNa(t) ==
    LET Complete(n) == \A c \in t.cols : ~t.rows[n][c].na
        F[n \in 0..Len(t.rows)] ==
            IF n = 0 THEN <<>>
            ELSE IF Complete(n)
                 THEN Append(F[n - 1], [c \in t.cols |-> CsvCell(c, t.rows[n][c])])
                 ELSE F[n - 1]
    IN [header |-> t.cols, lines |-> F[Len(t.rows)]]

\* df.copy().to_csv(index=False): the header and one line per row
to_csv(t) ==
    [header |-> t.cols,
     lines |-> [i \in 1..Len(t.rows) |-> [c \in t.cols |-> CsvCell(c, t.rows[i][c])]]]

\* ------------------------------------------------------------ what is shown
\* the page before anything is rendered
Blank ==
    [view |-> "none", failed |-> FALSE, messages |-> {}, menu_shown |-> FALSE,
     total |-> 0, activos |-> 0, retirados |-> 0, recaudo |-> 0,
     regional_counts |-> {}, recaudo_reg |-> {}, resumen_regional |-> {},
     shown |-> <<>>, csv_offered |-> FALSE, csv_data |-> to_csv(NoColumns)]

\* a view that stops at an uncaught exception
Failed(page) == [page EXCEPT !.failed = TRUE]

\* one run of App.py on the cached load result t (err: the load called
\* st.error) with menu m and search text q
RenderV1(err, t, m, q) ==
    LET msgs == IF err THEN {"error"} ELSE {}
        page == [Blank EXCEPT !.view = m, !.messages = msgs, !.menu_shown = TRUE]
    IN IF IsEmpty(t)
       THEN [Blank EXCEPT !.view = "warning", !.messages = msgs \cup {"warning"}]
       ELSE CASE m = "Dashboard" ->
                   IF ESTADO_AFILIADO \notin t.cols \/ REGIONAL \notin t.cols
                   THEN Failed(page)
                   ELSE [page EXCEPT
                           !.total = Len(t.rows),
                           !.activos = CountEstado(t, ACTIVO),
                           !.retirados = CountEstado(t, RETIRADO),
                           !.recaudo = IF SUMA_CUOTAS_NUM \in t.cols
                                       THEN total_recaudo(t) ELSE 0,
                           !.regional_counts = regional_counts(t)]
              [] m = "Gestion de Afiliados" ->
                   IF REGIONAL \notin t.cols \/ SearchRaises(t, q)
                   THEN Failed(page)
                   ELSE [page EXCEPT !.shown = FilterRows(t, q, Len(t.rows))]
              [] OTHER ->
                   IF \/ REGIONAL \notin t.cols
                      \/ ESTADO_AFILIADO \notin t.cols
                      \/ SUMA_CUOTAS_NUM \notin t.cols
                   THEN Failed(page)
                   ELSE [page EXCEPT !.resumen_regional = resumen_regional(t)]

\* one run of app.py on the session collection t with menu m and search text q
RenderV2(t, m, q) ==
    LET page == [Blank EXCEPT !.view = m, !.menu_shown = TRUE]
    IN CASE m = "Dashboard" ->
              IF \/ ESTADO_AFILIADO \notin t.cols
                 \/ SUMA_CUOTAS_NUM \notin t.cols
                 \/ REGIONAL \notin t.cols
              THEN Failed(page)
              ELSE [page EXCEPT
                      !.total = Len(t.rows),
                      !.activos = CountEstadoUpper(t, ACTIVO),
                      !.retirados = CountEstadoUpper(t, RETIRADO),
                      !.recaudo = total_recaudo(t),
                      !.regional_counts = regional_counts(t),
                      !.recaudo_reg = recaudo_reg(t)]
         [] m = "Gestion de Afiliados" ->
              IF q = <<>> THEN [page EXCEPT !.shown = t.rows]
              ELSE IF SearchRaises(t, q) THEN Failed(page)
              ELSE [page EXCEPT !.shown = FilterRows(t, q, Len(t.rows))]
         [] OTHER ->
              [page EXCEPT !.csv_offered = TRUE, !.csv_data = to_csv(t)]

\* ------------------------------------------------------------------- state
VARIABLES
    variant,    \* 1: App.py, 2: app.py
    phase,      \* "start" before the first run of the script, then "running"
    source,     \* the CSV the collection was last loaded from: parsable or not, header
    load_error, \* the cached load_data of App.py called st.error (replayed each run)
    df,         \* the collection: the cached load (1), session_state.df_afiliados (2)
    menu,       \* the selected menu entry
    search,     \* the text of the search box
    uploaded,   \* the file held by the file uploader, if any
    appends,    \* records appended through the form in this session
    page,       \* what the last run of the script rendered
    last        \* the interaction that caused the last run

vars == <<variant, phase, source, load_error, df, menu, search, uploaded, appends, page, last>>

MenuV1 == {"Dashboard", "Gestion de Afiliados", "Reportes por Regional"}

MenuV2 == {"Dashboard", "Gestion de Afiliados", "Importar/Exportar"}

\* the options of the Regional selectbox of app.py
RegionalOptions == {CENTRO_A, EJE_CAFETERO, NOROCCIDENTE, SUR, ORIENTE}

\* the options of the Estado selectbox
EstadoOptions == {ACTIVO, RETIRADO}

\* the form contents tried: a filled form, and a form with its text fields
\* left empty and no dues
FormInputs ==
    { [cedula |-> <<"3", "4">>, nombre |-> <<"E", "v", "a">>, reg |-> SUR,
       estado |-> ACTIVO, cuota |-> 50000],
      [cedula |-> <<>>, nombre |-> <<>>, reg |-> ORIENTE,
       estado |-> RETIRADO, cuota |-> 0] }

\* the search texts tried: empty, plain texts, a text no record holds, the
\* regex wildcard and an unbalanced parenthesis
SearchTexts ==
    { <<>>, <<"a">>, <<"A", "N">>, <<"2">>, <<"n", "a", "n">>, <<"z">>, <<".">>, <<"(">> }

NoFile == [present |-> FALSE, file |-> Unparsable]

Render(v, err, t, m, q) == IF v = 1 THEN RenderV1(err, t, m, q) ELSE RenderV2(t, m, q)

Init ==
    /\ variant \in {1, 2}
    /\ phase = "start"
    /\ source = [ok |-> FALSE, cols |-> {}]
    /\ load_error = FALSE
    /\ df = NoColumns
    /\ menu = "Dashboard"
    /\ search = <<>>
    /\ uploaded = NoFile
    /\ appends = 0
    /\ page = Blank
    /\ last = "none"

\* the first run of the script: the initial load, then the dashboard
Startup(file) ==
    /\ phase = "start"
    /\ phase' = "running"
    /\ source' = [ok |-> file.ok, cols |-> file.cols]
    /\ load_error' = (variant = 1 /\ LoadDataV1Raises(file))
    /\ df' = IF variant = 1 THEN LoadDataV1(file) ELSE InitialCollection(file)
    /\ page' = Render(variant, load_error', df', menu, search)
    /\ last' = "startup"
    /\ UNCHANGED <<variant, menu, search, uploaded, appends>>

\* a click in the sidebar radio; the widgets of the view left are dropped
SelectMenu(m) ==
    /\ phase = "running"
    /\ page.menu_shown
    /\ m \in (IF variant = 1 THEN MenuV1 ELSE MenuV2)
    /\ menu' = m
    /\ search' = <<>>
    /\ uploaded' = NoFile
    /\ page' = Render(variant, load_error, df, m, <<>>)
    /\ last' = "menu"
    /\ UNCHANGED <<variant, phase, source, load_error, df, appends>>

\* typing in the search box of the management view
Search(q) ==
    /\ phase = "running"
    /\ page.menu_shown
    /\ menu = "Gestion de Afiliados"
    /\ variant = 1 => REGIONAL \in df.cols
    /\ search' = q
    /\ page' = Render(variant, load_error, df, menu, q)
    /\ last' = "search"
    /\ UNCHANGED <<variant, phase, source, load_error, df, menu, uploaded, appends>>

\* "Guardar Registro" of App.py: a success message, nothing is stored
SubmitV1(form) ==
    /\ phase = "running"
    /\ variant = 1
    /\ page.menu_shown
    /\ menu = "Gestion de Afiliados"
    /\ REGIONAL \in df.cols
    /\ form.reg \in RegionalKeys(df)
    /\ form.estado \in EstadoOptions
    /\ LET shown == Render(variant, load_error, df, menu, search)
       IN page' = [shown EXCEPT !.messages = @ \cup {"success"}]
    /\ last' = "submit"
    /\ UNCHANGED <<variant, phase, source, load_error, df, menu, search, uploaded, appends>>

\* "Guardar Afiliado" of app.py: append the row, then st.rerun()
SubmitV2(form) ==
    /\ phase = "running"
    /\ variant = 2
    /\ menu = "Gestion de Afiliados"
    /\ appends < MaxAppends
    /\ form.reg \in RegionalOptions
    /\ form.estado \in EstadoOptions
    /\ form.cuota >= 0
    /\ df' = Concat(df, new_row(form))
    /\ appends' = appends + 1
    /\ page' = Render(variant, load_error, df', menu, search)
    /\ last' = "submit"
    /\ UNCHANGED <<variant, phase, source, load_error, menu, search, uploaded>>

\* a file is put into the uploader of the Importar/Exportar view
SelectFile(file) ==
    /\ phase = "running"
    /\ variant = 2
    /\ menu = "Importar/Exportar"
    /\ uploaded' = [present |-> TRUE, file |-> file]
    /\ page' = Render(variant, load_error, df, menu, search)
    /\ last' = "select_file"
    /\ UNCHANGED <<variant, phase, source, load_error, df, menu, search, appends>>

\* an import that appends the loaded rows to the current ones
ImportKeepsOld(cur, file) ==
    IF load_data_raises(file) THEN cur
    ELSE [cols |-> cur.cols \cup load_data(file).cols,
          rows |-> [i \in 1..Len(cur.rows) |->
                      Widen(cur.rows[i], cur.cols \cup load_data(file).cols)]
                   \o [i \in 1..Len(load_data(file).rows) |->
                         Widen(load_data(file).rows[i], cur.cols \cup load_data(file).cols)]]

\* an import that falls back to the empty frame when load_data raises, as the
\* session-state initialisation does
ImportFailureEmpties(cur, file) ==
    IF load_data_raises(file) THEN EmptyStructured ELSE load_data(file)

\* the collection after "Confirmar Importacion": load_data raising leaves the
\* assignment of line 145 undone
ConfirmImport(cur, file) == IF load_data_raises(file) THEN cur ELSE load_data(file)

\* "Confirmar Importacion": load, replace, st.rerun(); an exception of
\* load_data escapes the script run
Confirm ==
    /\ phase = "running"
    /\ variant = 2
    /\ menu = "Importar/Exportar"
    /\ uploaded.present
    /\ df' = ConfirmImport(df, uploaded.file)
    /\ page' = IF load_data_raises(uploaded.file)
               THEN Failed([Blank EXCEPT !.view = menu, !.menu_shown = TRUE])
               ELSE Render(variant, load_error, df', menu, search)
    /\ source' = IF load_data_raises(uploaded.file) THEN source
                 ELSE [ok |-> TRUE, cols |-> uploaded.file.cols]
    /\ last' = "confirm"
    /\ UNCHANGED <<variant, phase, load_error, menu, search, uploaded, appends>>

\* a click on "Exportar a CSV": the browser saves csv_data, the script reruns
Download ==
    /\ phase = "running"
    /\ variant = 2
    /\ menu = "Importar/Exportar"
    /\ page.csv_offered
    /\ page' = Render(variant, load_error, df, menu, search)
    /\ last' = "download"
    /\ UNCHANGED <<variant, phase, source, load_error, df, menu, search, uploaded, appends>>

Next ==
    \/ \E file \in DiskFiles : Startup(file)
    \/ \E m \in MenuV1 \cup MenuV2 : SelectMenu(m)
    \/ \E q \in SearchTexts : Search(q)
    \/ \E form \in FormInputs : SubmitV1(form)
    \/ \E form \in FormInputs : SubmitV2(form)
    \/ \E file \in UploadFiles : SelectFile(file)
    \/ Confirm
    \/ Download

Spec == Init /\ [][Next]_vars

\* -------------------------------------------------------------- properties
\* literal substring test
Contains(text, sub) ==
    \E k \in 0..(Len(text) - Len(sub)) : \A i \in 1..Len(sub) : text[k + i] = sub[i]

\* the records of group g, their number and their dues sum
GroupCount(t, g) == Cardinality(InGroup(t, g))

GroupSum(t, g) == SumOver(t, InGroup(t, g))

\* t2 is t1 followed by one record carrying the form's values, and only the
\* form's regional group grows, by one record and by the form's dues
AppendsOne(t1, t2, form) ==
    /\ Len(t2.rows) = Len(t1.rows) + 1
    /\ t1.cols \subseteq t2.cols
    /\ \A i \in 1..Len(t1.rows) : \A c \in t1.cols : t2.rows[i][c] = t1.rows[i][c]
    /\ LET r == t2.rows[Len(t2.rows)]
       IN /\ r[CEDULA] = Txt(form.cedula)
          /\ r[NOMBRES] = Txt(form.nombre)
          /\ r[REGIONAL] = Txt(form.reg)
          /\ r[ESTADO_AFILIADO] = Txt(form.estado)
          /\ r[SUMA_CUOTAS_NUM] = Num(form.cuota)
    /\ GroupCount(t2, form.reg) = GroupCount(t1, form.reg) + 1
    /\ GroupSum(t2, form.reg) = GroupSum(t1, form.reg) + form.cuota
    /\ \A g \in (RegionalKeys(t1) \cup RegionalKeys(t2)) \ {form.reg} :
          GroupCount(t2, g) = GroupCount(t1, g) /\ GroupSum(t2, g) = GroupSum(t1, g)

\* C1 as stated: in both variants a form submission appends exactly one
\* record carrying the submitted values after the unchanged earlier records,
\* and only the submitted regional's group grows (by 1 and by the dues).
C1_SubmitAppendsInBothVariants ==
    [][\A form \in FormInputs :
          (SubmitV1(form) \/ SubmitV2(form)) => AppendsOne(df, df', form)]_vars

\* C1 amended: in variant 2 a form submission appends exactly one record as
\* above; in variant 1 it only signals success and the collection is unchanged.
C1_SubmitAppendsInVariant2 ==
    [][\A form \in FormInputs :
          /\ SubmitV2(form) => AppendsOne(df, df', form)
          /\ SubmitV1(form) => df' = df /\ "success" \in page'.messages]_vars

\* a submission of variant 2 has appended after at least one loaded record
C1_Witness ==
    /\ variant = 2
    /\ last = "submit"
    /\ Len(df.rows) >= 2
    /\ SUMA_CUOTAS_NUM \in df.cols
    /\ df.rows[Len(df.rows)][SUMA_CUOTAS_NUM] = Num(50000)

\* C2: in variant 2, putting a file into the uploader leaves the collection
\* unchanged; a confirmed import whose load succeeds makes the collection
\* exactly the cleaned content of the uploaded file: as many records as the
\* file has rows, none of them a record of the previous collection.
C2_ImportReplacesOnConfirmOnly ==
    [][/\ (\E file \in UploadFiles : SelectFile(file)) => df' = df
       /\ (Confirm /\ ~load_data_raises(uploaded.file)) =>
             /\ df' = load_data(uploaded.file)
             /\ Len(df'.rows) = Len(uploaded.file.rows)
             /\ df'.cols = uploaded.file.cols \cup {SUMA_CUOTAS_NUM}
             /\ \A i \in 1..Len(df'.rows) :
                   \A c \in {CEDULA, NOMBRES, CIUDAD} :
                      df'.rows[i][c] = uploaded.file.rows[i][c]]_vars

\* an import has succeeded after a record was appended through the form, and
\* the appended record is gone
C2_Witness ==
    /\ variant = 2
    /\ last = "confirm"
    /\ ~page.failed
    /\ appends > 0
    /\ Len(df.rows) = 1
    /\ df.rows[1][CEDULA] = Txt(<<"1", "2">>)

\* the CSV text csv is the table t: the same columns, one line per record, in
\* order, each cell the record's value (empty for an absent one)
ExportIs(csv, t) ==
    /\ csv.header = t.cols
    /\ Len(csv.lines) = Len(t.rows)
    /\ \A i \in 1..Len(t.rows) : \A c \in t.cols :
          IF t.rows[i][c].na THEN csv.lines[i][c] = <<>>
          ELSE IF c = SUMA_CUOTAS_NUM
               THEN IsFloat(csv.lines[i][c]) /\ ParseFloat(csv.lines[i][c]) = t.rows[i][c].v
               ELSE csv.lines[i][c] = t.rows[i][c].v

\* C3: rendering the Importar/Exportar view and downloading the export leave
\* the collection as it was, and the CSV offered is always the collection of
\* that moment, one line per record.
C3_ExportIsPureRead ==
    [][/\ (Download \/ SelectMenu("Importar/Exportar")
             \/ \E file \in UploadFiles : SelectFile(file)) =>
             df' = df /\ page'.csv_offered
       /\ page'.csv_offered => ExportIs(page'.csv_data, df')]_vars

\* an export was downloaded of a collection holding loaded and appended records
C3_Witness ==
    /\ last = "download"
    /\ appends > 0
    /\ Len(df.rows) >= 2
    /\ Len(page.csv_data.lines) = Len(df.rows)
    /\ \E i \in 1..Len(df.rows) : \E c \in df.cols : df.rows[i][c].na

\* the numeric dues section 4.1 of the specification gives a raw dues cell
ExpectedDues(raw) ==
    IF raw.na THEN Num(0)
    ELSE IF IsFloat(StripCurrency(raw.v)) THEN Num(ParseFloat(StripCurrency(raw.v)))
    ELSE Num(0)

\* the amount a sum counts for a numeric dues cell: NaN counts as 0
Counted(cell) == IF cell.na THEN 0 ELSE cell.v

\* C4 as stated: cleaning the dues never makes a load fail, and every raw dues
\* value is cleaned to its number, or to 0.0 when it is no number or absent,
\* in both variants.  (A NaN kept for an absent value is accepted here as the
\* 0.0 it counts for.)
C4_CleaningNeverFails ==
    (phase = "running" /\ source.ok /\ source.cols = RawCols) =>
        /\ ~load_error
        /\ SUMA_CUOTAS_NUM \in df.cols
        /\ \A i \in 1..Len(df.rows) :
              Counted(df.rows[i][SUMA_CUOTAS_NUM])
                 = ExpectedDues(df.rows[i][SUMA_CUOTAS]).v

\* the status of record i, absent when the table has no status column
StatusOf(t, i) == IF ESTADO_AFILIADO \in t.cols THEN t.rows[i][ESTADO_AFILIADO] ELSE NaText

\* the status as the views compare it: App.py stores it upper-cased, app.py
\* upper-cases it at each comparison
NormalizedStatus(v, cell) == IF v = 1 THEN cell.v ELSE Upper(cell.v)

\* C5 as stated: in every reachable state every record has a status that is
\* neither absent nor empty, and its normalized form is upper case.
C5_StatusNeverAbsent ==
    phase = "running" =>
        \A i \in 1..Len(df.rows) :
           /\ ~StatusOf(df, i).na
           /\ StatusOf(df, i).v # <<>>
           /\ NormalizedStatus(variant, StatusOf(df, i))
                 = Upper(NormalizedStatus(variant, StatusOf(df, i)))

\* the sum of the v fields of a set of records [k, v]
RECURSIVE SumVals(_)
SumVals(S) ==
    IF S = {} THEN 0
    ELSE LET x == CHOOSE y \in S : TRUE IN x.v + SumVals(S \ {x})

\* the per-regional dues sums of the variant's breakdown, added up
BreakdownTotal(v, t) ==
    IF v = 1
    THEN SumVals({[k |-> g.REGIONAL, v |-> g.Recaudo_Total] : g \in resumen_regional(t)})
    ELSE SumVals({[k |-> g.REGIONAL, v |-> g.SUMA_CUOTAS_NUM] : g \in recaudo_reg(t)})

\* C6 as stated: in every reachable state the per-regional dues sums add up
\* to the total collected, a record without a regional included.
C6_GroupSumsEqualTotal ==
    (phase = "running"
       /\ {REGIONAL, ESTADO_AFILIADO, CEDULA, SUMA_CUOTAS_NUM} \subseteq df.cols) =>
        BreakdownTotal(variant, df) = total_recaudo(df)

\* C7 as stated: when the CSV cannot be parsed on the initial load, the
\* collection is an empty table with the expected headers, a message is
\* shown and the menu and its views stay usable.
C7_ParseFailureKeepsInterface ==
    (last = "startup" /\ ~source.ok) =>
        /\ df.rows = <<>>
        /\ df.cols \in {RawCols, EmptyStructured.cols}
        /\ page.messages # {}
        /\ page.menu_shown
        /\ ~page.failed

\* C8 as stated: when the loaded CSV has no SUMA_CUOTAS column, the dashboard
\* and the regional report render, and every dues figure they show is 0.
C8_MissingDuesColumnShowsZero ==
    (/\ phase = "running"
     /\ source.ok
     /\ SUMA_CUOTAS \notin source.cols
     /\ {REGIONAL, ESTADO_AFILIADO} \subseteq source.cols
     /\ appends = 0
     /\ page.view \in {"Dashboard", "Reportes por Regional"}) =>
        /\ ~page.failed
        /\ page.recaudo = 0
        /\ \A g \in page.resumen_regional : g.Recaudo_Total = 0
        /\ \A g \in page.recaudo_reg : g.SUMA_CUOTAS_NUM = 0

\* the rows a substring filter displays for the search text q: name contains q ignoring
\* case, or the cedula as text contains q
RECURSIVE ExpectedRows(_, _, _)
ExpectedRows(t, q, n) ==
    IF n = 0 THEN <<>>
    ELSE IF \/ ~t.rows[n][NOMBRES].na /\ Contains(Upper(t.rows[n][NOMBRES].v), Upper(q))
            \/ Contains(AsStr(t.rows[n][CEDULA]), q)
         THEN Append(ExpectedRows(t, q, n - 1), t.rows[n])
         ELSE ExpectedRows(t, q, n - 1)

\* C9 as stated: for every collection and search text the management view
\* displays exactly the records whose name contains the text ignoring case
\* or whose cedula as text contains it; the empty text displays every record.
\* (Stated for the searches whose view renders: a search that ends in an
\* exception displays no rows at all.)
C9_SearchIsSubstringFilter ==
    (last = "search" /\ page.view = "Gestion de Afiliados" /\ ~page.failed) =>
        /\ page.shown = ExpectedRows(df, search, Len(df.rows))
        /\ search = <<>> => page.shown = df.rows

\* C10: in variant 2 a confirmed import whose load fails (the file is no CSV,
\* or lacks the ESTADO_AFILIADO or the REGIONAL column) leaves the collection
\* exactly as it was.
C10_FailedImportKeepsCollection ==
    [][(/\ Confirm
        /\ \/ ~uploaded.file.ok
           \/ ESTADO_AFILIADO \notin uploaded.file.cols
           \/ REGIONAL \notin uploaded.file.cols) => df' = df]_vars

\* an import has failed and the record appended before it is still the last
\* record of the collection
C10_Witness ==
    /\ variant = 2
    /\ last = "confirm"
    /\ page.failed
    /\ appends > 0
    /\ Len(df.rows) >= 2
    /\ df.rows[Len(df.rows)][CEDULA] = Txt(<<"3", "4">>)

=============================================================================
